---- MODULE Spec2Model ----
(***************************************************************************)
(* BiconomySmartAccountV2: construction of unsigned user operations.       *)
(*                                                                         *)
(* One account instance (owner, factory, entry point, ECDSA module) is     *)
(* used by a set of callers.  Every `await` on an external query is a      *)
(* suspension point: the query is issued in one step and its response is   *)
(* consumed in a later step, so calls on the same instance interleave      *)
(* exactly at the places where the JavaScript event loop lets them.        *)
(***************************************************************************)
EXTENDS Integers, Sequences, FiniteSets, TLC

(***************************************************************************)
(* Bounds of the model.                                                    *)
(***************************************************************************)
MaxCalls == 2
MaxNonce == 2

(***************************************************************************)
(* Optional values (undefined / a value).                                  *)
(***************************************************************************)
None == << >>
Some(v) == << v >>
IsSome(o) == Len(o) > 0
Val(o) == o[1]

(***************************************************************************)
(* Hex strings are sequences of tokens; a token stands for w consecutive   *)
(* characters.                                                             *)
(***************************************************************************)
Tok0x == [w |-> 2, t |-> "0x"]
TokAddr(a) == [w |-> 40, t |-> "addr", a |-> a]
TokSel(s) == [w |-> 8, t |-> "sel", s |-> s]
TokZeros(n) == [w |-> n, t |-> "zeros"]
TokCut(n) == [w |-> n, t |-> "cut"]

EmptyHex == << Tok0x >>

RECURSIVE HexLen(_)
HexLen(s) == IF s = << >> THEN 0 ELSE Head(s).w + HexLen(Tail(s))

\* String.prototype.substring(from, to) / slice(from, to) on a token
\* sequence; a token that the range cuts through loses its identity.
RECURSIVE SubstringFrom(_, _, _, _)
SubstringFrom(s, pos, from, to) ==
    IF s = << >> \/ pos >= to THEN << >>
    ELSE LET tk  == Head(s)
             end == pos + tk.w
             lo  == IF pos > from THEN pos ELSE from
             hi  == IF end < to THEN end ELSE to
         IN  IF end <= from THEN SubstringFrom(Tail(s), end, from, to)
             ELSE IF lo = pos /\ hi = end
                  THEN << tk >> \o SubstringFrom(Tail(s), end, from, to)
                  ELSE << TokCut(hi - lo) >> \o SubstringFrom(Tail(s), end, from, to)

\* (The singleton sets bind the string to its value, so that it is
\* evaluated once and not at every use in the recursion.)
Substring(s, from, to) ==
    CHOOSE r \in { SubstringFrom(x, 0, from, to) : x \in {s} } : TRUE
SubstringToEnd(s, from) ==
    CHOOSE r \in { SubstringFrom(x, 0, from, HexLen(x)) : x \in {s} } : TRUE

\* viem concat([a, b]) of two hex strings: "0x" + a without prefix + b
\* without prefix.
HexConcat(a, b) ==
    CHOOSE r \in { << Tok0x >> \o SubstringToEnd(x, 2) \o SubstringToEnd(y, 2) :
                      x \in {a}, y \in {b} } : TRUE

\* ABI encoding of a function call: selector followed by the encoded
\* arguments.
EncodeFunctionData(fn, args) ==
    << Tok0x, TokSel(fn), [w |-> args.w, t |-> "args", args |-> args] >>

(***************************************************************************)
(* BigNumber.toHexString: big-endian hex digits, even length, zero is 00.  *)
(***************************************************************************)
RECURSIVE HexDigits(_)
HexDigits(n) == IF n < 16 THEN << n >> ELSE HexDigits(n \div 16) \o << n % 16 >>

ToHexString(n) ==
    LET d == HexDigits(n)
    IN  IF Len(d) % 2 = 1 THEN << 0 >> \o d ELSE d

RECURSIVE HexValue(_)
HexValue(d) ==
    IF d = << >> THEN 0 ELSE 16 * HexValue(SubSeq(d, 1, Len(d) - 1)) + d[Len(d)]

(***************************************************************************)
(* Addresses and the instance's constructor arguments.                     *)
(***************************************************************************)
InitCodeFactory == "0x000000a56Aaca3e9a4C479ea6b6CD0DbcB6634F5"
EntryPoint == "0xEntryPoint"

\* The instances the model is run with.
Configs ==
    { [owner |-> "0xOwnerA", factoryAddress |-> InitCodeFactory, ecdsaModule |-> "0xEcdsaModule"],
      [owner |-> "0xOwnerB", factoryAddress |-> "0xFactoryB", ecdsaModule |-> "0xEcdsaModuleB"] }

\* owner.address is "0x" followed by 40 hex characters.
OwnerAddressString(owner) == << Tok0x, TokAddr(owner) >>

\* '0x2ede3bc0000000000000000000000000' + owner.address.slice(2, 42)
ModuleSetupData(owner) ==
    << Tok0x, TokSel("2ede3bc0"), TokZeros(24) >> \o Substring(OwnerAddressString(owner), 2, 42)

\* The factory's deterministic address computation (a view call): an
\* injective function of the factory and the arguments passed to it.
GetAddressForCounterFactualAccount(factory, module, setupData, index) ==
    [factory |-> factory, module |-> module, setupData |-> setupData, index |-> index]

(***************************************************************************)
(* Inputs of the calls and answers of the external collaborators.          *)
(***************************************************************************)
Callers == {"c1", "c2"}

Destination == "0xBBBB"

GasLimitInputs == {None, Some(0), Some(33)}
NonceInputs == {None, Some(0), Some(1)}

\* TransactionDetailsForUserOp
Details(gasLimit, nonce) ==
    [to |-> Destination, value |-> None, data |-> EmptyHex, gasLimit |-> gasLimit, nonce |-> nonce]

DetailsInputs == { Details(g, n) : g \in GasLimitInputs, n \in NonceInputs }

\* The lists createUnsignedUserOp is called with: empty, one element, and
\* a batch of two.
InfosInputs ==
    { << >> } \cup { << d >> : d \in DetailsInputs }
              \cup { << Details(None, None), Details(Some(33), Some(1)) >> }

GasEstimates == {9, 300}
ChainIds == {137}
FeeDatas == { [maxFeePerGas |-> Some(50), maxPriorityFeePerGas |-> Some(2)] }
ErrorCodes == {"NetworkFailure", "CallRevert"}
InitialNonces == {0, 1}

QueryError(kind, code) == [name |-> kind, message |-> code]

(***************************************************************************)
(* State.                                                                  *)
(***************************************************************************)
VARIABLES
    config,                \* owner, factoryAddress, ecdsaOwnership: readonly fields
    accountAddress,        \* this.accountAddress (None while undefined)
    smartAccountContract,  \* this.smartAccountContract (None while undefined)
    deployed,              \* ledger: the account address has code
    chainNonce,            \* ledger: the account's nonce counter
    callers,               \* per caller: position, frames, locals, result
    calls,                 \* number of calls started on the instance
    addressWrites,         \* history: assignments made to this.accountAddress
    addressesReturned,     \* history: values getAccountAddress has returned
    records                \* history: nonce resolution of every returned record

vars == << config, accountAddress, smartAccountContract, deployed, chainNonce,
           callers, calls, addressWrites, addressesReturned, records >>

instanceVars == << config, accountAddress, smartAccountContract >>
ledgerVars == << deployed, chainNonce >>
historyVars == << addressWrites, addressesReturned, records >>

NoResult == [status |-> "none", value |-> None, error |-> None]

NoLocals ==
    [ callData |-> << >>, callGasLimit |-> << >>, nonce |-> None, initCode |-> << >>,
      initGas |-> 0, verificationGasLimit |-> 0, chainId |-> None, feeData |-> None,
      ledgerAt |-> None ]

IdleCaller ==
    [ pc |-> "idle", op |-> "none", stack |-> << >>, infos |-> << >>, nonceArg |-> None,
      arg |-> None, ret |-> None, loc |-> NoLocals, result |-> NoResult, queries |-> << >>,
      id |-> 0 ]

\* The code the ledger holds at the account address.
AccountCode == IF deployed THEN << Tok0x, [w |-> 64, t |-> "code"] >> ELSE EmptyHex

Init ==
    /\ config \in Configs
    /\ accountAddress = None
    /\ smartAccountContract = None
    /\ deployed = FALSE
    /\ chainNonce = 0
    /\ callers = [p \in Callers |-> IdleCaller]
    /\ calls = 0
    /\ addressWrites = 0
    /\ addressesReturned = {}
    /\ records = {}

(***************************************************************************)
(* Control transfer inside one call.  A call runs synchronously from its   *)
(* entry to its first suspension; later it is resumed at the label it      *)
(* suspended at (pc), and `stack` holds the labels at which the awaiting   *)
(* functions continue.                                                     *)
(***************************************************************************)
\* The promise of the outermost call is fulfilled with v.
Complete(c, v) ==
    [c EXCEPT !.pc = "done", !.stack = << >>, !.ret = None,
              !.result = [status |-> "ok", value |-> Some(v), error |-> None]]

\* The awaiting function continues at `resume` with v.
Deliver(c, resume, v) ==
    IF resume = "done" THEN Complete(c, v)
    ELSE [c EXCEPT !.pc = resume, !.ret = Some(v)]

\* `return v` of the function the call is suspended in.
Return(c, v) == Deliver([c EXCEPT !.stack = Tail(c.stack)], Head(c.stack), v)

\* A rejection: no function of the class catches, so it unwinds every
\* frame and rejects the promise of the outermost call.
Throw(c, e) ==
    [c EXCEPT !.pc = "done", !.stack = << >>, !.ret = None,
              !.result = [status |-> "failed", value |-> None, error |-> Some(e)]]

Push(c, resume) == [c EXCEPT !.stack = << resume >> \o c.stack]

\* An external query is sent and the function suspends at `wait`.
Issue(c, q, wait) ==
    [c EXCEPT !.pc = wait, !.queries = Append(c.queries, q), !.ret = None]

Query(kind, from, to, data) ==
    [kind |-> kind, from |-> from, to |-> to, data |-> data, answer |-> None, error |-> None]

LastQuery(c) == c.queries[Len(c.queries)]

\* The answer / the failure of the query the caller is waiting for.
Answered(c, v) == [c EXCEPT !.queries[Len(c.queries)].answer = Some(v)]
Failed(c, e) == [c EXCEPT !.queries[Len(c.queries)].error = Some(e)]

(***************************************************************************)
(* The ledger changes independently of the instance: the account gets      *)
(* deployed, and every operation it executes advances its nonce.           *)
(***************************************************************************)
LedgerDeploy ==
    /\ ~deployed
    /\ deployed' = TRUE
    /\ chainNonce' \in InitialNonces
    /\ UNCHANGED << instanceVars, callers, calls, historyVars >>

LedgerExecute ==
    /\ deployed
    /\ chainNonce < MaxNonce
    /\ chainNonce' = chainNonce + 1
    /\ UNCHANGED << deployed, instanceVars, callers, calls, historyVars >>

(***************************************************************************)
(* getAccountAddress                                                       *)
(***************************************************************************)
\* The labels at which a function continues with the value that
\* getAccountAddress returned.
AddressLabels == {"getAccountContract_new", "estimateGas", "getCode", "assemble"}

\* The address a step handed to the code that awaited getAccountAddress.
AddressReturned(c) ==
    IF c.pc \in AddressLabels /\ IsSome(c.ret) THEN {Val(c.ret)}
    ELSE IF c.pc = "done" /\ c.op = "getAccountAddress" /\ c.result.status = "ok"
         THEN {Val(c.result.value)}
         ELSE {}

Observe(p) == addressesReturned' = addressesReturned \cup AddressReturned(callers'[p])

\* Variant of getAccountAddress that passes a per-call index to the factory
\* instead of the constant 0.
GetAccountAddressPerCallIndex(c, resume) ==
    IF IsSome(accountAddress)
    THEN Deliver(c, resume, Val(accountAddress))
    ELSE Issue(Push(c, resume),
               Query("getAddressForCounterFactualAccount", None,
                     Some(config.factoryAddress),
                     [module |-> config.ecdsaModule,
                      setupData |-> ModuleSetupData(config.owner),
                      index |-> c.id]),
               "getAccountAddress_wait")

\* if (this.accountAddress) return it; otherwise send the factory's view
\* call with (ecdsaOwnership, moduleSetupData, 0) and suspend.
GetAccountAddress(c, resume) ==
    IF IsSome(accountAddress)
    THEN Deliver(c, resume, Val(accountAddress))
    ELSE Issue(Push(c, resume),
               Query("getAddressForCounterFactualAccount", None,
                     Some(config.factoryAddress),
                     [module |-> config.ecdsaModule,
                      setupData |-> ModuleSetupData(config.owner),
                      index |-> 0]),
               "getAccountAddress_wait")

\* Variant that stores the promise of the view call in the cache without
\* awaiting it, so that a rejection stays cached.
GetAccountAddressResumeCachedPromise(p, errors) ==
    LET c == callers[p]
        q == LastQuery(c)
        v == GetAddressForCounterFactualAccount(Val(q.to), q.data.module, q.data.setupData, q.data.index)
    IN
    /\ c.pc = "getAccountAddress_wait"
    /\ \/ /\ accountAddress' = Some(v)
          /\ addressWrites' = addressWrites + 1
          /\ callers' = [callers EXCEPT ![p] = Return(Answered(c, v), Val(accountAddress'))]
       \/ \E code \in errors :
            LET e == QueryError(q.kind, code) IN
            /\ callers' = [callers EXCEPT ![p] = Throw(Failed(c, e), e)]
            /\ accountAddress' = Some([rejected |-> e])
            /\ addressWrites' = addressWrites + 1
    /\ Observe(p)
    /\ UNCHANGED << config, smartAccountContract, ledgerVars, calls, records >>

\* this.accountAddress = await ...; return this.accountAddress
GetAccountAddressResume(p, errors) ==
    LET c == callers[p]
        q == LastQuery(c)
        v == GetAddressForCounterFactualAccount(Val(q.to), q.data.module, q.data.setupData, q.data.index)
    IN
    /\ c.pc = "getAccountAddress_wait"
    /\ \/ /\ accountAddress' = Some(v)
          /\ addressWrites' = addressWrites + 1
          /\ callers' = [callers EXCEPT ![p] = Return(Answered(c, v), Val(accountAddress'))]
       \/ \E code \in errors :
            LET e == QueryError(q.kind, code) IN
            /\ callers' = [callers EXCEPT ![p] = Throw(Failed(c, e), e)]
            /\ UNCHANGED << accountAddress, addressWrites >>
    /\ Observe(p)
    /\ UNCHANGED << config, smartAccountContract, ledgerVars, calls, records >>

(***************************************************************************)
(* getAccountContract                                                      *)
(***************************************************************************)
NewContract(address) == [address |-> address]

\* Variant of getAccountContract that asks the factory for the address
\* itself, without going through getAccountAddress and its cache.
GetAccountContractOwnLookup(c, resume) ==
    IF IsSome(smartAccountContract)
    THEN Deliver(c, resume, Val(smartAccountContract))
    ELSE Issue(Push(Push(c, resume), "getAccountContract_new"),
               Query("getAddressForCounterFactualAccount", None,
                     Some(config.factoryAddress),
                     [module |-> config.ecdsaModule,
                      setupData |-> ModuleSetupData(config.owner),
                      index |-> 0]),
               "getAccountAddress_wait")

\* if (this.smartAccountContract) return it;
\* accountAddress = await this.getAccountAddress()
GetAccountContract(c, resume) ==
    IF IsSome(smartAccountContract)
    THEN Deliver(c, resume, Val(smartAccountContract))
    ELSE GetAccountAddress(Push(c, resume), "getAccountContract_new")

\* Variant that binds the handle to an address derived with the number of
\* the call as index.
GetAccountContractResumeOwnIndex(p) ==
    LET c == callers[p] IN
    /\ c.pc = "getAccountContract_new"
    /\ smartAccountContract' = Some(NewContract([Val(c.ret) EXCEPT !.index = c.id]))
    /\ callers' = [callers EXCEPT ![p] = Return(c, Val(smartAccountContract'))]
    /\ Observe(p)
    /\ UNCHANGED << config, accountAddress, ledgerVars, calls, addressWrites, records >>

\* this.smartAccountContract = new Contract(accountAddress, ...)
GetAccountContractResume(p) ==
    LET c == callers[p] IN
    /\ c.pc = "getAccountContract_new"
    /\ smartAccountContract' = Some(NewContract(Val(c.ret)))
    /\ callers' = [callers EXCEPT ![p] = Return(c, Val(smartAccountContract'))]
    /\ Observe(p)
    /\ UNCHANGED << config, accountAddress, ledgerVars, calls, addressWrites, records >>

(***************************************************************************)
(* Pure parts of createUnsignedUserOp.                                     *)
(***************************************************************************)
BatchError == [name |-> "Error", message |-> "BiconomySmartAccount does not support batch transactions"]
UndefinedInfoError == [name |-> "TypeError", message |-> "Cannot read properties of undefined"]

\* simpleAccount.execute_ncC.populateTransaction(to, value, data).data
EncodeExecute(to, value, data) ==
    EncodeFunctionData("execute_ncC",
                       [w |-> 256, to |-> to, value |-> value, data |-> data])

\* concat([factory, encodeFunctionData(deployCounterFactualAccount,
\*         [ecdsaOwnership, moduleSetupData, 0n])])
CreateInitCode(index) ==
    HexConcat(<< Tok0x, TokAddr(InitCodeFactory) >>,
              EncodeFunctionData("deployCounterFactualAccount",
                                 [w |-> 384, module |-> config.ecdsaModule,
                                  setupData |-> ModuleSetupData(config.owner),
                                  index |-> 0]))

GetVerificationGasLimit == 1500000

\* A promise as a field of a returned object.
Pending == [kind |-> "promise", state |-> "pending", value |-> None]
Fulfilled(v) == [kind |-> "promise", state |-> "fulfilled", value |-> Some(v)]

\* resolveProperties: every promise-valued property replaced by its value.
ResolveProperties(userOp) == [userOp EXCEPT !.sender = Val(userOp.sender.value)]

\* calcPreVerificationGas: fixed overhead plus a cost per character of
\* the variable-length fields of the resolved record.
CalcPreVerificationGas(userOp) ==
    21000 + 8 * (HexLen(userOp.initCode) + HexLen(userOp.callData)
                 + HexLen(userOp.paymasterAndData))

(***************************************************************************)
(* isAccountDeploied and getNonce                                          *)
(***************************************************************************)
\* Variant of isAccountDeploied that remembers that an earlier build found
\* no code at the address and answers from that memory.
IsAccountDeploiedRemembered(c, resume) ==
    IF \E r \in records : ~r.ledgerAt[1]
    THEN LET r == CHOOSE r \in records : ~r.ledgerAt[1] IN
         Deliver([c EXCEPT !.loc.ledgerAt = Some(r.ledgerAt)], resume, FALSE)
    ELSE GetAccountAddress(Push(c, resume), "getCode")

\* accountAddress = await this.getAccountAddress()
IsAccountDeploied(c, resume) == GetAccountAddress(Push(c, resume), "getCode")

\* provider.getCode(accountAddress)
GetCode(p) ==
    LET c == callers[p] IN
    /\ c.pc = "getCode"
    /\ callers' = [callers EXCEPT ![p] =
          Issue(c, Query("getCode", None, Some(Val(c.ret)), EmptyHex), "getCode_wait")]
    /\ Observe(p)
    /\ UNCHANGED << instanceVars, ledgerVars, calls, addressWrites, records >>

\* return code.length > 2
GetCodeResume(p, errors) ==
    LET c == callers[p]
        q == LastQuery(c)
        code == AccountCode
    IN
    /\ c.pc = "getCode_wait"
    /\ \/ callers' = [callers EXCEPT ![p] =
             Return([Answered(c, code) EXCEPT !.loc.ledgerAt = Some(<< deployed, chainNonce >>)],
                    HexLen(code) > 2)]
       \/ \E ec \in errors :
            LET e == QueryError(q.kind, ec) IN
            callers' = [callers EXCEPT ![p] = Throw(Failed(c, e), e)]
    /\ Observe(p)
    /\ UNCHANGED << instanceVars, ledgerVars, calls, addressWrites, records >>

\* isAccountDeploied = await this.isAccountDeploied()
GetNonce(c, resume) == IsAccountDeploied(Push(c, resume), "getNonce_deployed")

\* Variant of getNonce with the deployment test inverted.
GetNonceDeployedInverted(p) ==
    LET c == callers[p] IN
    /\ c.pc = "getNonce_deployed"
    /\ callers' = [callers EXCEPT ![p] =
          IF Val(c.ret) THEN Return(c, 0)
          ELSE GetAccountContract(c, "nonce")]
    /\ Observe(p)
    /\ UNCHANGED << instanceVars, ledgerVars, calls, addressWrites, records >>

\* if (!isAccountDeploied) return 0; accountContract = await getAccountContract()
GetNonceDeployed(p) ==
    LET c == callers[p] IN
    /\ c.pc = "getNonce_deployed"
    /\ callers' = [callers EXCEPT ![p] =
          IF ~Val(c.ret) THEN Return(c, 0)
          ELSE GetAccountContract(c, "nonce")]
    /\ Observe(p)
    /\ UNCHANGED << instanceVars, ledgerVars, calls, addressWrites, records >>

\* accountContract.nonce()
ReadNonce(p) ==
    LET c == callers[p] IN
    /\ c.pc = "nonce"
    /\ callers' = [callers EXCEPT ![p] =
          Issue(c, Query("nonce", None, Some(Val(c.ret).address), EmptyHex), "nonce_wait")]
    /\ Observe(p)
    /\ UNCHANGED << instanceVars, ledgerVars, calls, addressWrites, records >>

ReadNonceResume(p, errors) ==
    LET c == callers[p]
        q == LastQuery(c)
    IN
    /\ c.pc = "nonce_wait"
    /\ \/ callers' = [callers EXCEPT ![p] =
             Return([Answered(c, chainNonce) EXCEPT !.loc.ledgerAt = Some(<< deployed, chainNonce >>)],
                    chainNonce)]
       \/ \E ec \in errors :
            LET e == QueryError(q.kind, ec) IN
            callers' = [callers EXCEPT ![p] = Throw(Failed(c, e), e)]
    /\ Observe(p)
    /\ UNCHANGED << instanceVars, ledgerVars, calls, addressWrites, records >>

(***************************************************************************)
(* createUnsignedUserOp                                                    *)
(***************************************************************************)
\* Variant of createUnsignedUserOp without the batch check: it builds from
\* infos[0] whatever the length.
CreateUnsignedUserOpFirstOnly(c) ==
    IF c.infos = << >> THEN Throw(c, UndefinedInfoError)
    ELSE GetAccountContract(c, "encodeExecute")

\* if (infos.length > 1) throw; info = infos[0];
\* encodeUserOpCallDataAndGasLimit(info) -> encodeExecute -> getAccountContract
CreateUnsignedUserOp(c) ==
    IF Len(c.infos) > 1 THEN Throw(c, BatchError)
    ELSE IF c.infos = << >> THEN Throw(c, UndefinedInfoError)
    ELSE GetAccountContract(c, "encodeExecute")

\* Variant of encodeUserOpCallDataAndGasLimit that estimates only when
\* gasLimit is absent, taking an explicit 0 verbatim.
EncodeUserOpCallDataAndGasLimitAbsentOnly(p) ==
    LET c == callers[p]
        info == c.infos[1]
        value == IF IsSome(info.value) THEN Val(info.value) ELSE 0
        callData == EncodeExecute(info.to, ToHexString(value), info.data)
        c1 == [c EXCEPT !.loc.callData = callData]
    IN
    /\ c.pc = "encodeExecute"
    /\ callers' = [callers EXCEPT ![p] =
          IF ~IsSome(info.gasLimit)
          THEN GetAccountAddress(c1, "estimateGas")
          ELSE [c1 EXCEPT !.pc = "resolveNonce", !.ret = None,
                          !.loc.callGasLimit = ToHexString(Val(info.gasLimit))]]
    /\ Observe(p)
    /\ UNCHANGED << instanceVars, ledgerVars, calls, addressWrites, records >>

\* callData = execute(to, value, data); callGasLimit = gasLimit ?? 0;
\* when that is zero, estimateGas({from: entryPoint, to: getAccountAddress(), data})
EncodeUserOpCallDataAndGasLimit(p) ==
    LET c == callers[p]
        info == c.infos[1]
        value == IF IsSome(info.value) THEN Val(info.value) ELSE 0
        callData == EncodeExecute(info.to, ToHexString(value), info.data)
        callGasLimit == IF IsSome(info.gasLimit) THEN Val(info.gasLimit) ELSE 0
        c1 == [c EXCEPT !.loc.callData = callData]
    IN
    /\ c.pc = "encodeExecute"
    /\ callers' = [callers EXCEPT ![p] =
          IF callGasLimit = 0
          THEN GetAccountAddress(c1, "estimateGas")
          ELSE [c1 EXCEPT !.pc = "resolveNonce", !.ret = None,
                          !.loc.callGasLimit = ToHexString(callGasLimit)]]
    /\ Observe(p)
    /\ UNCHANGED << instanceVars, ledgerVars, calls, addressWrites, records >>

\* Variant that sends the call-gas estimate without awaiting it and moves
\* on to the nonce.
EstimateCallGasUnawaited(p) ==
    LET c == callers[p] IN
    /\ c.pc = "estimateGas"
    /\ callers' = [callers EXCEPT ![p] =
          Issue(c, Query("estimateGas", Some(EntryPoint), Some(Val(c.ret)), c.loc.callData),
                "resolveNonce")]
    /\ Observe(p)
    /\ UNCHANGED << instanceVars, ledgerVars, calls, addressWrites, records >>

EstimateCallGas(p) ==
    LET c == callers[p] IN
    /\ c.pc = "estimateGas"
    /\ callers' = [callers EXCEPT ![p] =
          Issue(c, Query("estimateGas", Some(EntryPoint), Some(Val(c.ret)), c.loc.callData),
                "estimateGas_wait")]
    /\ Observe(p)
    /\ UNCHANGED << instanceVars, ledgerVars, calls, addressWrites, records >>

EstimateCallGasResume(p, estimates, errors) ==
    LET c == callers[p]
        q == LastQuery(c)
    IN
    /\ c.pc = "estimateGas_wait"
    /\ \/ \E gas \in estimates :
            callers' = [callers EXCEPT ![p] =
               [Answered(c, gas) EXCEPT !.pc = "resolveNonce",
                                        !.loc.callGasLimit = ToHexString(gas)]]
       \/ \E code \in errors :
            LET e == QueryError(q.kind, code) IN
            callers' = [callers EXCEPT ![p] = Throw(Failed(c, e), e)]
    /\ Observe(p)
    /\ UNCHANGED << instanceVars, ledgerVars, calls, addressWrites, records >>

\* Variant that leaves the creation gas out of verificationGasLimit.
VerificationGasAndNetworkBaseOnly(c, initGas) ==
    Issue([c EXCEPT !.loc.initGas = initGas,
                    !.loc.verificationGasLimit = GetVerificationGasLimit],
          Query("getNetwork", None, None, EmptyHex), "getNetwork_wait")

\* verificationGasLimit = getVerificationGasLimit() + initGas, then
\* provider.getNetwork() is sent.
VerificationGasAndNetwork(c, initGas) ==
    Issue([c EXCEPT !.loc.initGas = initGas,
                    !.loc.verificationGasLimit = GetVerificationGasLimit + initGas],
          Query("getNetwork", None, None, EmptyHex), "getNetwork_wait")

\* estimateCreationGas returns gas: to its caller when it was called on
\* its own, into line 58 of createUnsignedUserOp otherwise.
CreationGasEstimated(c, gas) ==
    IF c.op = "estimateCreationGas" THEN Complete(c, gas)
    ELSE VerificationGasAndNetwork(c, gas)

\* Variant of estimateCreationGas that splits init-code after 40
\* characters, leaving the "0x" prefix out of the count.
EstimateCreationGasSplit40(c, initCode) ==
    IF initCode = << >> \/ initCode = EmptyHex
    THEN CreationGasEstimated(c, 0)
    ELSE Issue(c, Query("estimateGas", None, Some(Substring(initCode, 0, 40)),
                        << Tok0x >> \o SubstringToEnd(initCode, 40)),
               "creationGas_wait")

\* estimateCreationGas(initCode): 0 for empty or absent init-code (<< >>),
\* otherwise an estimateGas query to the first 20 bytes with the rest as
\* data.
EstimateCreationGas(c, initCode) ==
    IF initCode = << >> \/ initCode = EmptyHex
    THEN CreationGasEstimated(c, 0)
    ELSE Issue(c, Query("estimateGas", None, Some(Substring(initCode, 0, 42)),
                        << Tok0x >> \o SubstringToEnd(initCode, 42)),
               "creationGas_wait")

\* Variant that builds init-code whatever the nonce.
InitCodeAndCreationGasAlways(c, nonce) ==
    LET initCode == CreateInitCode(0)
    IN  EstimateCreationGas([c EXCEPT !.loc.nonce = Some(nonce), !.loc.initCode = initCode,
                                      !.ret = None],
                            initCode)

\* initCode = '0x'; if nonce is 0, initCode = createInitCode(); then
\* estimateCreationGas(initCode).
InitCodeAndCreationGas(c, nonce) ==
    LET initCode == IF nonce = 0 THEN CreateInitCode(0) ELSE EmptyHex
    IN  EstimateCreationGas([c EXCEPT !.loc.nonce = Some(nonce), !.loc.initCode = initCode,
                                      !.ret = None],
                            initCode)

\* Variant with `||` in place of `??`: a supplied nonce of 0 counts as absent.
ResolveNonceFalsy(p) ==
    LET c == callers[p]
        info == c.infos[1]
    IN
    /\ c.pc = "resolveNonce"
    /\ callers' = [callers EXCEPT ![p] =
          IF IsSome(info.nonce) /\ Val(info.nonce) # 0
          THEN InitCodeAndCreationGas(c, Val(info.nonce))
          ELSE GetNonce(c, "nonceResolved")]
    /\ Observe(p)
    /\ UNCHANGED << instanceVars, ledgerVars, calls, addressWrites, records >>

\* nonce = info.nonce ?? (await this.getNonce())
ResolveNonce(p) ==
    LET c == callers[p]
        info == c.infos[1]
    IN
    /\ c.pc = "resolveNonce"
    /\ callers' = [callers EXCEPT ![p] =
          IF IsSome(info.nonce)
          THEN InitCodeAndCreationGas(c, Val(info.nonce))
          ELSE GetNonce(c, "nonceResolved")]
    /\ Observe(p)
    /\ UNCHANGED << instanceVars, ledgerVars, calls, addressWrites, records >>

\* Variant in which a nonce passed as the second argument is kept in
\* place of the nonce that getNonce() returned.
NonceResolvedArgumentKept(p) ==
    LET c == callers[p] IN
    /\ c.pc = "nonceResolved"
    /\ callers' = [callers EXCEPT ![p] =
          InitCodeAndCreationGas(c, IF IsSome(c.nonceArg) THEN Val(c.nonceArg) ELSE Val(c.ret))]
    /\ Observe(p)
    /\ UNCHANGED << instanceVars, ledgerVars, calls, addressWrites, records >>

\* The awaited getNonce() has returned.
NonceResolved(p) ==
    LET c == callers[p] IN
    /\ c.pc = "nonceResolved"
    /\ callers' = [callers EXCEPT ![p] = InitCodeAndCreationGas(c, Val(c.ret))]
    /\ Observe(p)
    /\ UNCHANGED << instanceVars, ledgerVars, calls, addressWrites, records >>

\* Variant in which the creation-gas estimate is obtained by sending the
\* deployment as a transaction, which puts the account's code on the ledger.
EstimateCreationGasResumeDeploys(p, estimates, errors) ==
    LET c == callers[p]
        q == LastQuery(c)
    IN
    /\ c.pc = "creationGas_wait"
    /\ \/ \E gas \in estimates :
            /\ callers' = [callers EXCEPT ![p] = CreationGasEstimated(Answered(c, gas), gas)]
            /\ deployed' = TRUE
            /\ chainNonce' = chainNonce
       \/ \E ec \in errors :
            LET e == QueryError(q.kind, ec) IN
            /\ callers' = [callers EXCEPT ![p] = Throw(Failed(c, e), e)]
            /\ UNCHANGED ledgerVars
    /\ Observe(p)
    /\ UNCHANGED << instanceVars, calls, addressWrites, records >>

EstimateCreationGasResume(p, estimates, errors) ==
    LET c == callers[p]
        q == LastQuery(c)
    IN
    /\ c.pc = "creationGas_wait"
    /\ \/ \E gas \in estimates :
            callers' = [callers EXCEPT ![p] = CreationGasEstimated(Answered(c, gas), gas)]
       \/ \E ec \in errors :
            LET e == QueryError(q.kind, ec) IN
            callers' = [callers EXCEPT ![p] = Throw(Failed(c, e), e)]
    /\ Observe(p)
    /\ UNCHANGED << instanceVars, ledgerVars, calls, addressWrites, records >>

\* network = await provider.getNetwork(); getFeeDataFromParticle(chainId)
GetNetworkResume(p, errors) ==
    LET c == callers[p]
        q == LastQuery(c)
    IN
    /\ c.pc = "getNetwork_wait"
    /\ \/ \E chainId \in ChainIds :
            callers' = [callers EXCEPT ![p] =
               Issue([Answered(c, chainId) EXCEPT !.loc.chainId = Some(chainId)],
                     Query("getFeeData", None, None, chainId), "getFeeData_wait")]
       \/ \E ec \in errors :
            LET e == QueryError(q.kind, ec) IN
            callers' = [callers EXCEPT ![p] = Throw(Failed(c, e), e)]
    /\ Observe(p)
    /\ UNCHANGED << instanceVars, ledgerVars, calls, addressWrites, records >>

\* Variant that catches a failed fee lookup and goes on with undefined fees.
GetFeeDataResumeFallback(p, errors) ==
    LET c == callers[p]
        q == LastQuery(c)
        noFees == [maxFeePerGas |-> None, maxPriorityFeePerGas |-> None]
    IN
    /\ c.pc = "getFeeData_wait"
    /\ \/ \E feeData \in FeeDatas :
            callers' = [callers EXCEPT ![p] =
               GetAccountAddress([Answered(c, feeData) EXCEPT !.loc.feeData = Some(feeData)],
                                 "assemble")]
       \/ \E ec \in errors :
            LET e == QueryError(q.kind, ec) IN
            callers' = [callers EXCEPT ![p] =
               GetAccountAddress([Failed(c, e) EXCEPT !.loc.feeData = Some(noFees)],
                                 "assemble")]
    /\ Observe(p)
    /\ UNCHANGED << instanceVars, ledgerVars, calls, addressWrites, records >>

\* feeData received; partialUserOp = { sender: this.getAccountAddress(), ... }
GetFeeDataResume(p, errors) ==
    LET c == callers[p]
        q == LastQuery(c)
    IN
    /\ c.pc = "getFeeData_wait"
    /\ \/ \E feeData \in FeeDatas :
            callers' = [callers EXCEPT ![p] =
               GetAccountAddress([Answered(c, feeData) EXCEPT !.loc.feeData = Some(feeData)],
                                 "assemble")]
       \/ \E ec \in errors :
            LET e == QueryError(q.kind, ec) IN
            callers' = [callers EXCEPT ![p] = Throw(Failed(c, e), e)]
    /\ Observe(p)
    /\ UNCHANGED << instanceVars, ledgerVars, calls, addressWrites, records >>

\* The object literal of lines 69-79; sender holds the promise that
\* getAccountAddress() returned.
PartialUserOp(c, sender) ==
    [ sender |-> Fulfilled(sender),
      nonce |-> Val(c.loc.nonce),
      initCode |-> c.loc.initCode,
      callData |-> c.loc.callData,
      callGasLimit |-> c.loc.callGasLimit,
      verificationGasLimit |-> c.loc.verificationGasLimit,
      maxFeePerGas |-> Val(c.loc.feeData).maxFeePerGas,
      maxPriorityFeePerGas |-> Val(c.loc.feeData).maxPriorityFeePerGas,
      paymasterAndData |-> EmptyHex ]

\* return { ...partialUserOp, preVerificationGas: this.getPreVerificationGas(partialUserOp),
\*          signature: '0x' }: the call is not awaited, the field holds its promise.
UserOp(partialUserOp) ==
    [ sender |-> partialUserOp.sender,
      nonce |-> partialUserOp.nonce,
      initCode |-> partialUserOp.initCode,
      callData |-> partialUserOp.callData,
      callGasLimit |-> partialUserOp.callGasLimit,
      verificationGasLimit |-> partialUserOp.verificationGasLimit,
      maxFeePerGas |-> partialUserOp.maxFeePerGas,
      maxPriorityFeePerGas |-> partialUserOp.maxPriorityFeePerGas,
      paymasterAndData |-> partialUserOp.paymasterAndData,
      preVerificationGas |-> Pending,
      signature |-> EmptyHex ]

\* Variant in which line 82 awaits a promise that nothing settles.
AssembleAwaitsForever(p) ==
    LET c == callers[p] IN
    /\ c.pc = "assemble"
    /\ callers' = [callers EXCEPT ![p].pc = "preVerificationGas_wait"]
    /\ Observe(p)
    /\ UNCHANGED << instanceVars, ledgerVars, calls, addressWrites, records >>

\* Lines 69-88: assemble, await getPreVerificationGas for the log, return.
Assemble(p) ==
    LET c == callers[p]
        partialUserOp == PartialUserOp(c, Val(c.ret))
        info == c.infos[1]
    IN
    /\ c.pc = "assemble"
    /\ callers' = [callers EXCEPT ![p] = Complete(c, UserOp(partialUserOp))]
    /\ records' = records \cup
          IF IsSome(info.nonce) THEN {}
          ELSE { [id |-> c.id, nonce |-> partialUserOp.nonce, ledgerAt |-> Val(c.loc.ledgerAt)] }
    /\ Observe(p)
    /\ UNCHANGED << instanceVars, ledgerVars, calls, addressWrites >>

\* The promise of the un-awaited getPreVerificationGas(partialUserOp)
\* settles after the record has been returned.
GetPreVerificationGas(p) ==
    LET c == callers[p]
        userOp == Val(c.result.value)
    IN
    /\ c.pc = "done"
    /\ c.op = "createUnsignedUserOp"
    /\ c.result.status = "ok"
    /\ userOp.preVerificationGas.state = "pending"
    /\ callers' = [callers EXCEPT ![p].result.value =
          Some([userOp EXCEPT !.preVerificationGas =
                   Fulfilled(CalcPreVerificationGas(ResolveProperties(userOp)))])]
    /\ UNCHANGED << instanceVars, ledgerVars, calls, historyVars >>

(***************************************************************************)
(* Calls made on the instance.                                             *)
(***************************************************************************)
Free(p) == callers[p].pc \in {"idle", "done"}

NewCall(op, infos, nonce) ==
    [IdleCaller EXCEPT !.op = op, !.infos = infos, !.nonceArg = nonce, !.id = calls + 1]

CallGetAccountAddress(p) ==
    /\ Free(p)
    /\ calls < MaxCalls
    /\ calls' = calls + 1
    /\ callers' = [callers EXCEPT ![p] =
          GetAccountAddress(NewCall("getAccountAddress", << >>, None), "done")]
    /\ Observe(p)
    /\ UNCHANGED << instanceVars, ledgerVars, addressWrites, records >>

\* Variant in which the call fetches the account contract before it looks
\* at the details.
CallCreateUnsignedUserOpContractFirst(p, infos, nonce) ==
    /\ Free(p)
    /\ calls < MaxCalls
    /\ calls' = calls + 1
    /\ callers' = [callers EXCEPT ![p] =
          IF Len(infos) > 1 THEN Throw(NewCall("createUnsignedUserOp", infos, nonce), BatchError)
          ELSE GetAccountContract(NewCall("createUnsignedUserOp", infos, nonce), "encodeExecute")]
    /\ Observe(p)
    /\ UNCHANGED << instanceVars, ledgerVars, addressWrites, records >>

\* A call of createUnsignedUserOp(infos, nonce) up to its first suspension.
CallCreateUnsignedUserOp(p, infos, nonce) ==
    /\ Free(p)
    /\ calls < MaxCalls
    /\ calls' = calls + 1
    /\ callers' = [callers EXCEPT ![p] =
          CreateUnsignedUserOp(NewCall("createUnsignedUserOp", infos, nonce))]
    /\ Observe(p)
    /\ UNCHANGED << instanceVars, ledgerVars, addressWrites, records >>

NewCallWith(op, arg) == [NewCall(op, << >>, None) EXCEPT !.arg = Some(arg)]

CallGetAccountContract(p) ==
    /\ Free(p)
    /\ calls < MaxCalls
    /\ calls' = calls + 1
    /\ callers' = [callers EXCEPT ![p] =
          GetAccountContract(NewCall("getAccountContract", << >>, None), "done")]
    /\ Observe(p)
    /\ UNCHANGED << instanceVars, ledgerVars, addressWrites, records >>

CallIsAccountDeploied(p) ==
    /\ Free(p)
    /\ calls < MaxCalls
    /\ calls' = calls + 1
    /\ callers' = [callers EXCEPT ![p] =
          IsAccountDeploied(NewCall("isAccountDeploied", << >>, None), "done")]
    /\ Observe(p)
    /\ UNCHANGED << instanceVars, ledgerVars, addressWrites, records >>

CallGetNonce(p) ==
    /\ Free(p)
    /\ calls < MaxCalls
    /\ calls' = calls + 1
    /\ callers' = [callers EXCEPT ![p] = GetNonce(NewCall("getNonce", << >>, None), "done")]
    /\ Observe(p)
    /\ UNCHANGED << instanceVars, ledgerVars, addressWrites, records >>

\* createInitCode(index): an async method without a suspension point.
CallCreateInitCode(p, index) ==
    /\ Free(p)
    /\ calls < MaxCalls
    /\ calls' = calls + 1
    /\ callers' = [callers EXCEPT ![p] =
          Complete(NewCallWith("createInitCode", index), CreateInitCode(index))]
    /\ Observe(p)
    /\ UNCHANGED << instanceVars, ledgerVars, addressWrites, records >>

\* Init-code of another factory, as a caller of estimateCreationGas may
\* pass it.
ForeignInitCode ==
    HexConcat(<< Tok0x, TokAddr("0xFactoryC") >>,
              EncodeFunctionData("deploy", [w |-> 64, salt |-> 1]))

\* The arguments estimateCreationGas is called with: absent (<< >>), '0x',
\* the instance's own init-code and a foreign one.
InitCodeInputs == { << >>, EmptyHex, CreateInitCode(0), ForeignInitCode }

IndexInputs == {0, 1}

CallEstimateCreationGas(p, initCode) ==
    /\ Free(p)
    /\ calls < MaxCalls
    /\ calls' = calls + 1
    /\ callers' = [callers EXCEPT ![p] =
          EstimateCreationGas(NewCallWith("estimateCreationGas", initCode), initCode)]
    /\ Observe(p)
    /\ UNCHANGED << instanceVars, ledgerVars, addressWrites, records >>

(***************************************************************************)
(* Specifications.                                                         *)
(***************************************************************************)
Step(p, estimates, errors) ==
    \/ GetAccountAddressResume(p, errors)
    \/ GetAccountContractResume(p)
    \/ EncodeUserOpCallDataAndGasLimit(p)
    \/ EstimateCallGas(p)
    \/ EstimateCallGasResume(p, estimates, errors)
    \/ ResolveNonce(p)
    \/ GetCode(p)
    \/ GetCodeResume(p, errors)
    \/ GetNonceDeployed(p)
    \/ ReadNonce(p)
    \/ ReadNonceResume(p, errors)
    \/ NonceResolved(p)
    \/ EstimateCreationGasResume(p, estimates, errors)
    \/ GetNetworkResume(p, errors)
    \/ GetFeeDataResume(p, errors)
    \/ Assemble(p)
    \/ GetPreVerificationGas(p)

\* One call at a time, with every input and every answer.
SeqCaller == "c1"

BuildInputs ==
    { << infos, None >> : infos \in InfosInputs }
      \cup { << << Details(None, None) >>, Some(7) >>, << << Details(Some(33), Some(1)) >>, Some(7) >> }

NextSeq ==
    \/ LedgerDeploy
    \/ LedgerExecute
    \/ CallGetAccountAddress(SeqCaller)
    \/ CallGetAccountContract(SeqCaller)
    \/ CallIsAccountDeploied(SeqCaller)
    \/ CallGetNonce(SeqCaller)
    \/ \E index \in IndexInputs : CallCreateInitCode(SeqCaller, index)
    \/ \E initCode \in InitCodeInputs : CallEstimateCreationGas(SeqCaller, initCode)
    \/ \E in \in BuildInputs : CallCreateUnsignedUserOp(SeqCaller, in[1], in[2])
    \/ Step(SeqCaller, GasEstimates, ErrorCodes)

SpecSeq == Init /\ [][NextSeq]_vars

\* Calls of several callers interleaved at their suspension points.
ConcInfos == { << Details(None, None) >> }
ConcEstimates == {300}
ConcErrors == {"NetworkFailure"}

Next ==
    \/ LedgerDeploy
    \/ LedgerExecute
    \/ \E p \in Callers : CallGetAccountAddress(p)
    \/ \E p \in Callers, infos \in ConcInfos : CallCreateUnsignedUserOp(p, infos, None)
    \/ \E p \in Callers : Step(p, ConcEstimates, ConcErrors)

Spec == Init /\ [][Next]_vars

\* Every continuation that is ready runs, and every query that was sent
\* gets its response: each caller's next step is eventually taken.
Fairness == \A p \in Callers : WF_vars(Step(p, ConcEstimates, ConcErrors))

SpecLive == Spec /\ Fairness

(***************************************************************************)
(* Properties.                                                             *)
(***************************************************************************)
\* The call of p is a createUnsignedUserOp that has returned a record.
Built(p) ==
    /\ callers[p].op = "createUnsignedUserOp"
    /\ callers[p].pc = "done"
    /\ callers[p].result.status = "ok"

\* The call of p is a createUnsignedUserOp that has failed.
BuildFailed(p) ==
    /\ callers[p].op = "createUnsignedUserOp"
    /\ callers[p].pc = "done"
    /\ callers[p].result.status = "failed"

Rec(p) == Val(callers[p].result.value)
Info(p) == callers[p].infos[1]
QueryIds(p) == 1..Len(callers[p].queries)
QueryOf(p, i) == callers[p].queries[i]

\* C1: in every returned record, init-code is non-empty exactly when the
\* record's nonce is zero, whether the nonce was supplied by the caller or
\* resolved from the ledger, and whether or not the account is deployed.
C1_InitCodeIffZeroNonce ==
    \A p \in Callers :
        Built(p) => ((HexLen(Rec(p).initCode) > 2) <=> (Rec(p).nonce = 0))

\* A record built with a forced nonce of 1 while the account is undeployed.
C1_Witness ==
    \E p \in Callers :
        /\ Built(p)
        /\ Info(p).nonce = Some(1)
        /\ ~deployed
        /\ Rec(p).initCode = EmptyHex

\* C2: a call with more than one element fails with the batch error,
\* without a record and without having sent any query.
C2_BatchRejected ==
    \A p \in Callers :
        (callers[p].op = "createUnsignedUserOp" /\ Len(callers[p].infos) > 1)
            => /\ BuildFailed(p)
               /\ callers[p].result.error = Some(BatchError)
               /\ callers[p].result.value = None
               /\ callers[p].queries = << >>

C2_Witness ==
    \E p \in Callers : BuildFailed(p) /\ Len(callers[p].infos) = 2

\* C3: every value getAccountAddress returns, to any caller and at any
\* point of any interleaving, is one and the same address, and the cache,
\* once set, keeps its value.
C3_AddressIdempotent ==
    /\ [](Cardinality(addressesReturned) <= 1)
    /\ [](IsSome(accountAddress) => addressesReturned \subseteq {Val(accountAddress)})
    /\ [][IsSome(accountAddress) => accountAddress' = accountAddress]_vars

\* Two getAccountAddress calls that both missed the cache have returned,
\* and the ledger has changed meanwhile.
C3_Witness ==
    /\ addressWrites = 2
    /\ deployed
    /\ \A p \in Callers :
          /\ callers[p].op = "getAccountAddress"
          /\ callers[p].pc = "done"
          /\ callers[p].result.value = accountAddress

\* C4: callGasLimit is the caller's gasLimit when that is present and
\* nonzero; otherwise it is the answer to the estimateGas query sent from
\* the entry point to the account address with the encoded execute call.
C4_CallGasLimit ==
    \A p \in Callers :
        Built(p) =>
            IF IsSome(Info(p).gasLimit) /\ Val(Info(p).gasLimit) # 0
            THEN HexValue(Rec(p).callGasLimit) = Val(Info(p).gasLimit)
            ELSE \E i \in QueryIds(p) : LET q == QueryOf(p, i) IN
                    /\ q.kind = "estimateGas"
                    /\ q.from = Some(EntryPoint)
                    /\ q.to = accountAddress
                    /\ q.data = EncodeExecute(Info(p).to, << 0, 0 >>, Info(p).data)
                    /\ q.data = Rec(p).callData
                    /\ IsSome(q.answer)
                    /\ HexValue(Rec(p).callGasLimit) = Val(q.answer)

\* A record built from details whose gasLimit is an explicit zero.
C4_Witness ==
    \E p \in Callers :
        /\ Built(p)
        /\ Info(p).gasLimit = Some(0)
        /\ HexValue(Rec(p).callGasLimit) = 300

\* C5: verificationGasLimit is 1,500,000 for empty init-code and
\* 1,500,000 plus the creation-gas estimate obtained for the record's
\* init-code otherwise.
C5_VerificationGasLimit ==
    \A p \in Callers :
        Built(p) =>
            IF Rec(p).initCode = EmptyHex
            THEN Rec(p).verificationGasLimit = 1500000
            ELSE \E i \in QueryIds(p) : LET q == QueryOf(p, i) IN
                    /\ q.kind = "estimateGas"
                    /\ q.from = None
                    /\ HexConcat(Val(q.to), q.data) = Rec(p).initCode
                    /\ IsSome(q.answer)
                    /\ Rec(p).verificationGasLimit = 1500000 + Val(q.answer)

C5_Witness ==
    \E p \in Callers :
        /\ Built(p)
        /\ HexLen(Rec(p).initCode) > 2
        /\ Rec(p).verificationGasLimit = 1500300

\* C6: the record's nonce is the caller's nonce when the details carry one
\* (an explicit 0 included); otherwise it is the answer of the nonce read
\* when the getCode answer showed code at the account, and 0 when it
\* showed none.
C6_NonceResolution ==
    \A p \in Callers :
        Built(p) =>
            IF IsSome(Info(p).nonce)
            THEN /\ Rec(p).nonce = Val(Info(p).nonce)
                 /\ \A i \in QueryIds(p) : QueryOf(p, i).kind \notin {"getCode", "nonce"}
            ELSE \E i \in QueryIds(p) : LET q == QueryOf(p, i) IN
                    /\ q.kind = "getCode"
                    /\ IsSome(q.answer)
                    /\ IF HexLen(Val(q.answer)) > 2
                       THEN \E j \in QueryIds(p) : LET r == QueryOf(p, j) IN
                               /\ j > i
                               /\ r.kind = "nonce"
                               /\ r.to = accountAddress
                               /\ r.answer = Some(Rec(p).nonce)
                       ELSE /\ Rec(p).nonce = 0
                            /\ \A j \in QueryIds(p) : QueryOf(p, j).kind # "nonce"

\* A record whose nonce was read from the deployed account, and is not 0.
C6_Witness ==
    \E p \in Callers :
        /\ Built(p)
        /\ Info(p).nonce = None
        /\ Rec(p).nonce = 2
        /\ \E i \in QueryIds(p) : QueryOf(p, i).kind = "nonce"

\* C7: every returned record carries, as preVerificationGas, the computed
\* pre-verification gas of its assembled fields, never a pending value.
C7_PreVerificationGasResolved ==
    \A p \in Callers :
        Built(p) =>
            /\ Rec(p).preVerificationGas.state # "pending"
            /\ Rec(p).preVerificationGas.value
                 = Some(CalcPreVerificationGas(ResolveProperties(Rec(p))))

\* C8: a failed query of a build is the build's last query, the build has
\* failed with that query's error, and it has returned no record.
C8_FailurePropagates ==
    \A p \in Callers :
        callers[p].op = "createUnsignedUserOp" =>
            \A i \in QueryIds(p) :
                IsSome(QueryOf(p, i).error) =>
                    /\ i = Len(callers[p].queries)
                    /\ BuildFailed(p)
                    /\ callers[p].result.error = QueryOf(p, i).error
                    /\ callers[p].result.value = None
                    /\ callers[p].stack = << >>

\* A build that failed at the fee lookup, its seventh query.
C8_Witness ==
    \E p \in Callers :
        /\ BuildFailed(p)
        /\ Len(callers[p].queries) = 7
        /\ LastQuery(callers[p]).kind = "getFeeData"
        /\ IsSome(LastQuery(callers[p]).error)

\* C9: the address cache is assigned at most once in the instance's
\* lifetime.
C9_AddressWrittenOnce == addressWrites <= 1

\* The ledger's nonce for the account in the ledger state s.
LedgerNonceAt(s) == IF s[1] THEN s[2] ELSE 0

\* C10: the records an instance returns with the nonce left to the
\* pipeline carry pairwise distinct nonces.
C10_DistinctNonces ==
    \A r1, r2 \in records : r1.id # r2.id => r1.nonce # r2.nonce

\* C10 as amended: a record with the nonce left to the pipeline carries the
\* ledger's nonce for the account as of its resolution (0 while there is
\* no code); two such records differ in their nonce only if the ledger
\* changed between their resolutions.
C10_NonceFollowsLedger ==
    /\ \A r \in records : r.nonce = LedgerNonceAt(r.ledgerAt)
    /\ \A r1, r2 \in records : r1.nonce # r2.nonce => r1.ledgerAt # r2.ledgerAt

\* Two records resolved against the same ledger state, with equal nonces.
C10_Witness ==
    \E r1, r2 \in records :
        /\ r1.id # r2.id
        /\ r1.ledgerAt = r2.ledgerAt
        /\ r1.ledgerAt[1]
        /\ r1.nonce = r2.nonce

\* A query of the call of p that was answered.
IsAnswered(q) == IsSome(q.answer)

\* The creation-gas queries of p: estimateGas without a sender.
IsCreationGasQuery(q) == q.kind = "estimateGas" /\ q.from = None

\* C11: no step of a call changes the ledger (account code, on-chain nonce
\* counter): the ledger changes only by steps of its own; and every
\* external interaction of a call is one of the read-only queries.
C11_NoLedgerChange ==
    /\ [][callers' # callers => (deployed' = deployed /\ chainNonce' = chainNonce)]_vars
    /\ [](\A p \in Callers : \A i \in QueryIds(p) :
            QueryOf(p, i).kind \in {"getAddressForCounterFactualAccount", "getCode", "nonce",
                                   "estimateGas", "getNetwork", "getFeeData"})

\* A build that estimated the gas of the deployment and returned a record,
\* with the account still without code.
C11_Witness ==
    \E p \in Callers :
        /\ Built(p)
        /\ \E i \in QueryIds(p) : IsCreationGasQuery(QueryOf(p, i)) /\ IsAnswered(QueryOf(p, i))
        /\ ~deployed
        /\ HexLen(Rec(p).initCode) > 2

\* A query that has been answered or has failed.
IsSettled(q) == IsSome(q.answer) \/ IsSome(q.error)

\* The place of a query in the pipeline of createUnsignedUserOp: address
\* computation (lines 47, 126, 187), call gas (98), deployment check (178),
\* nonce read (173), creation gas (122), chain id (64), fees (65).
QueryRank(q) ==
    CASE q.kind = "getAddressForCounterFactualAccount" -> 1
      [] q.kind = "estimateGas" /\ q.from # None -> 2
      [] q.kind = "getCode" -> 3
      [] q.kind = "nonce" -> 4
      [] q.kind = "estimateGas" /\ q.from = None -> 5
      [] q.kind = "getNetwork" -> 6
      [] q.kind = "getFeeData" -> 7

\* C12: within one build the steps run one after another in the order call
\* encoding and call gas, nonce resolution (deployment check, then nonce
\* read), init-code, creation gas, chain id and fees, assembly: a query is
\* sent only when every earlier query of the build is settled, the queries
\* follow the order of the steps, and each step finds the results of the
\* steps before it.
C12_StrictOrder ==
    \A p \in Callers :
        callers[p].op = "createUnsignedUserOp" =>
            LET c == callers[p] IN
            /\ \A i \in QueryIds(p) : i < Len(c.queries) => IsSettled(QueryOf(p, i))
            /\ \A i \in QueryIds(p) :
                    i > 1 => QueryRank(QueryOf(p, i - 1)) < QueryRank(QueryOf(p, i))
            /\ \A i \in QueryIds(p) :
                    LET r == QueryRank(QueryOf(p, i)) IN
                    /\ r >= 2 => c.loc.callData # << >>
                    /\ r >= 3 => c.loc.callGasLimit # << >>
                    /\ r >= 5 => IsSome(c.loc.nonce) /\ c.loc.initCode # << >>
                    /\ r = 5 => HexLen(c.loc.initCode) > 2
                    /\ r >= 6 => c.loc.initGas \in {0} \cup GasEstimates
                                 /\ c.loc.verificationGasLimit >= GetVerificationGasLimit
                    /\ r >= 7 => IsSome(c.loc.chainId)
            /\ Built(p) => /\ \A i \in QueryIds(p) : IsSettled(QueryOf(p, i))
                           /\ IsSome(c.loc.feeData)
                           /\ QueryRank(LastQuery(c)) = 7

\* A build that went through all seven queries, one after another.
C12_Witness ==
    \E p \in Callers :
        /\ Built(p)
        /\ Len(callers[p].queries) = 7
        /\ \A i \in QueryIds(p) : QueryRank(QueryOf(p, i)) = i /\ IsAnswered(QueryOf(p, i))

\* The call of p has returned v.
ReturnedOk(p, op) ==
    /\ callers[p].op = op
    /\ callers[p].pc = "done"
    /\ callers[p].result.status = "ok"

\* Query i of the call of p asked the ledger for the code and was told
\* `isDeployed`.
GetCodeAnswered(p, i, isDeployed) ==
    /\ QueryOf(p, i).kind = "getCode"
    /\ IsAnswered(QueryOf(p, i))
    /\ isDeployed = (HexLen(Val(QueryOf(p, i).answer)) > 2)

\* The call of p asked the ledger for the code and was told `isDeployed`;
\* if there was code, it then read the nonce `nonce` from the account, and
\* otherwise it read nothing and `nonce` is 0.
CodeQueried(p, isDeployed, nonce) ==
    \E i \in QueryIds(p) :
        /\ GetCodeAnswered(p, i, isDeployed)
        /\ IF isDeployed
           THEN \E j \in QueryIds(p) :
                    /\ j > i
                    /\ QueryOf(p, j).kind = "nonce"
                    /\ QueryOf(p, j).answer = Some(nonce)
           ELSE /\ nonce = 0
                /\ \A j \in QueryIds(p) : QueryOf(p, j).kind # "nonce"

\* C13: deployment state is not cached. Every isAccountDeploied call, every
\* getNonce call and every build with the nonce left to the pipeline sends
\* its own getCode query and decides by its answer; so a build made after
\* the account got deployed with nonce n > 0 returns n and empty init-code,
\* whatever earlier builds returned.
C13_DeploymentRequeried ==
    \A p \in Callers :
        /\ ReturnedOk(p, "isAccountDeploied") =>
               \E i \in QueryIds(p) : GetCodeAnswered(p, i, Val(callers[p].result.value))
        /\ ReturnedOk(p, "getNonce") =>
               \E d \in BOOLEAN : CodeQueried(p, d, Val(callers[p].result.value))
        /\ (Built(p) /\ Info(p).nonce = None) =>
               /\ \E d \in BOOLEAN : CodeQueried(p, d, Rec(p).nonce)
               /\ Rec(p).nonce = LedgerNonceAt(Val(callers[p].loc.ledgerAt))
               /\ Rec(p).nonce > 0 => Rec(p).initCode = EmptyHex

\* An earlier build found no code and returned nonce 0; a later build on
\* the same instance returns the nonce n > 0 of the account deployed in
\* between, and empty init-code.
C13_Witness ==
    \E p \in Callers, r \in records :
        /\ r.nonce = 0
        /\ ~r.ledgerAt[1]
        /\ Built(p)
        /\ Info(p).nonce = None
        /\ callers[p].id > r.id
        /\ Rec(p).nonce > 0
        /\ Rec(p).nonce = chainNonce
        /\ Rec(p).initCode = EmptyHex
        /\ CodeQueried(p, TRUE, Rec(p).nonce)

IsViewCall(q) == q.kind = "getAddressForCounterFactualAccount"

\* The step sends the factory's address-computation view call for p.
ViewCallSent(p) ==
    /\ callers'[p].queries # callers[p].queries
    /\ callers'[p].queries # << >>
    /\ IsViewCall(LastQuery(callers'[p]))
    /\ ~IsSettled(LastQuery(callers'[p]))

\* C14: a getAccountAddress call that has completed successfully has left
\* the address in the cache, and from then on no step of any operation on
\* the instance sends the factory's view call; in particular no operation
\* started afterwards does.
C14_NoSecondViewCall ==
    /\ [](\A p \in Callers :
            ReturnedOk(p, "getAccountAddress") => accountAddress = callers[p].result.value)
    /\ [][IsSome(accountAddress) => \A p \in Callers : ~ViewCallSent(p)]_vars

\* The second call on an instance, a getNonce (which goes through
\* isAccountDeploied, getAccountAddress and getAccountContract) started
\* after the first call had resolved the address, has returned without a
\* view call of its own, with the cached address as the target of its
\* getCode query.
C14_Witness ==
    \E p \in Callers :
        /\ calls = 2
        /\ addressWrites = 1
        /\ ReturnedOk(p, "getNonce")
        /\ callers[p].id = 2
        /\ \A i \in QueryIds(p) : ~IsViewCall(QueryOf(p, i))
        /\ \E i \in QueryIds(p) : GetCodeAnswered(p, i, TRUE) /\ QueryOf(p, i).to = accountAddress

\* The init-code that names `factory` and the deployment arguments
\* (module, setupData, index).
InitCodeFor(factory, module, setupData, index) ==
    HexConcat(<< Tok0x, TokAddr(factory) >>,
              EncodeFunctionData("deployCounterFactualAccount",
                                 [w |-> 384, module |-> module, setupData |-> setupData,
                                  index |-> index]))

\* C15: for every index, createInitCode(index) returns the factory address
\* followed by the encoded deterministic-deploy call that carries the
\* instance's module address, the owner's module setup data and that index.
C15_InitCodeCarriesIndex ==
    \A p \in Callers :
        ReturnedOk(p, "createInitCode") =>
            Val(callers[p].result.value) =
                InitCodeFor(InitCodeFactory, config.ecdsaModule, ModuleSetupData(config.owner),
                            Val(callers[p].arg))

\* The build of p was told by its getCode query that the account has code.
FoundDeployed(p) == \E i \in QueryIds(p) : GetCodeAnswered(p, i, TRUE)
FoundUndeployed(p) == \E i \in QueryIds(p) : GetCodeAnswered(p, i, FALSE)

\* C16: a returned record carries non-empty init-code only if the account
\* is undeployed during that build; for an account the build found
\* deployed, the init-code is empty.
C16_InitCodeOnlyIfUndeployed ==
    \A p \in Callers :
        (Built(p) /\ FoundDeployed(p)) => Rec(p).initCode = EmptyHex

\* C16 as amended: a build that found the account undeployed returns
\* non-empty init-code; a build that found it deployed returns empty
\* init-code unless the nonce it read from the account is 0; a build with
\* a supplied nonce does not look at the deployment state, and its
\* init-code is non-empty exactly when that nonce is 0.
C16_InitCodeByDeployment ==
    \A p \in Callers :
        Built(p) =>
            IF Info(p).nonce = None
            THEN /\ FoundDeployed(p) # FoundUndeployed(p)
                 /\ FoundUndeployed(p) => HexLen(Rec(p).initCode) > 2
                 /\ FoundDeployed(p) =>
                        /\ CodeQueried(p, TRUE, Rec(p).nonce)
                        /\ (HexLen(Rec(p).initCode) > 2) <=> (Rec(p).nonce = 0)
                        /\ Rec(p).nonce # 0 => Rec(p).initCode = EmptyHex
            ELSE /\ ~FoundDeployed(p) /\ ~FoundUndeployed(p)
                 /\ (HexLen(Rec(p).initCode) > 2) <=> (Val(Info(p).nonce) = 0)

\* A build that found the account deployed, read the nonce 0 from it and
\* returned non-empty init-code.
C16_Witness ==
    \E p \in Callers :
        /\ Built(p)
        /\ Info(p).nonce = None
        /\ CodeQueried(p, TRUE, 0)
        /\ HexLen(Rec(p).initCode) > 2

\* The argument of a call of estimateCreationGas is empty: '0x' or absent.
IsEmptyInitCode(initCode) == initCode = << >> \/ initCode = EmptyHex

\* C17: estimateCreationGas(initCode) returns 0 without any query when
\* initCode is '0x' or absent; otherwise it sends exactly one estimateGas
\* query, to the first 20 bytes of initCode ("0x" and 40 digits) with the
\* remaining bytes as data, so that target followed by data is initCode,
\* and it returns the estimator's answer; while it waits, that query is
\* the only one.
C17_CreationGas ==
    \A p \in Callers :
        callers[p].op = "estimateCreationGas" =>
            LET c == callers[p]
                initCode == Val(c.arg)
            IN
            IF IsEmptyInitCode(initCode)
            THEN /\ ReturnedOk(p, "estimateCreationGas")
                 /\ c.result.value = Some(0)
                 /\ c.queries = << >>
            ELSE /\ Len(c.queries) = 1
                 /\ IsCreationGasQuery(c.queries[1])
                 /\ HexLen(Val(c.queries[1].to)) = 42
                 /\ Head(c.queries[1].data) = Tok0x
                 /\ HexConcat(Val(c.queries[1].to), c.queries[1].data) = initCode
                 /\ ReturnedOk(p, "estimateCreationGas") =>
                        /\ IsAnswered(c.queries[1])
                        /\ c.result.value = c.queries[1].answer
                 /\ (c.pc = "done" /\ c.result.status = "failed") =>
                        c.result.error = c.queries[1].error

\* estimateCreationGas called with the init-code of another factory has
\* returned the estimator's answer to its one query.
C17_Witness ==
    \E p \in Callers :
        /\ ReturnedOk(p, "estimateCreationGas")
        /\ Val(callers[p].arg) = ForeignInitCode
        /\ Len(callers[p].queries) = 1
        /\ callers[p].queries[1].to = Some(<< Tok0x, TokAddr("0xFactoryC") >>)
        /\ callers[p].result.value = Some(300)

\* The call of p has failed.
HasFailed(p, op) ==
    /\ callers[p].op = op
    /\ callers[p].pc = "done"
    /\ callers[p].result.status = "failed"

\* C18: a getAccountAddress call whose view call fails, fails with the
\* error of the view call, and the step in which it fails leaves the
\* address cache as it was (unset, unless a concurrent call has set it);
\* a call that finds the cache unset sends the view call again.
C18_ViewCallFailure ==
    /\ [](\A p \in Callers :
            HasFailed(p, "getAccountAddress") =>
                /\ Len(callers[p].queries) = 1
                /\ IsViewCall(callers[p].queries[1])
                /\ IsSome(callers[p].queries[1].error)
                /\ callers[p].result.error = callers[p].queries[1].error)
    /\ [][\A p \in Callers :
            (callers[p].pc = "getAccountAddress_wait" /\ callers'[p].pc = "done"
                /\ callers'[p].result.status = "failed")
            => accountAddress' = accountAddress]_vars
    /\ [][\A p \in Callers :
            (callers'[p].op = "getAccountAddress" /\ callers'[p].id # callers[p].id
                /\ accountAddress = None)
            => ViewCallSent(p)]_vars

\* A getAccountAddress call has failed with the error of its view call; a
\* later call on the same instance has sent the view call again and has
\* returned the address, which is now cached.
C18_Witness ==
    \E p, o \in Callers :
        /\ HasFailed(p, "getAccountAddress")
        /\ callers[p].result.error = callers[p].queries[1].error
        /\ callers[o].id > callers[p].id
        /\ ReturnedOk(o, "getAccountAddress")
        /\ Len(callers[o].queries) = 1
        /\ IsViewCall(callers[o].queries[1])
        /\ callers[o].queries[1].answer = callers[o].result.value
        /\ accountAddress = callers[o].result.value
        /\ addressWrites = 1

\* C19: in every returned record the sender field is the resolved account
\* address value, the one getAccountAddress returns for the instance, and
\* not a computation still to be resolved.
C19_SenderIsAddress ==
    \A p \in Callers :
        Built(p) => Rec(p).sender = Val(accountAddress)

\* C20: whenever a returned record carries non-empty init-code, the
\* init-code names the factory and the (module, setup data, index) from
\* which getAccountAddress derived the record's sender, whatever factory
\* address the instance was constructed with.
C20_InitCodeDeploysSender ==
    \A p \in Callers :
        (Built(p) /\ HexLen(Rec(p).initCode) > 2) =>
            LET sender == Val(Rec(p).sender.value) IN
            Rec(p).initCode =
                InitCodeFor(sender.factory, sender.module, sender.setupData, sender.index)

\* The call of p has sent the query of the pipeline step `rank`, and the
\* answer it received.
HasQuery(p, rank) == \E i \in QueryIds(p) : QueryRank(QueryOf(p, i)) = rank
AnswerTo(p, rank) ==
    Val(QueryOf(p, CHOOSE i \in QueryIds(p) : QueryRank(QueryOf(p, i)) = rank).answer)

\* The record that lines 46-88 compute from the details, the instance and
\* the answers of the ledger, the estimator and the fee service.
ExpectedNonce(p) ==
    IF IsSome(Info(p).nonce) THEN Val(Info(p).nonce)
    ELSE IF HexLen(AnswerTo(p, 3)) > 2 THEN AnswerTo(p, 4) ELSE 0

ExpectedUserOp(p) ==
    LET info == Info(p)
        nonce == ExpectedNonce(p)
        gasLimit == IF IsSome(info.gasLimit) THEN Val(info.gasLimit) ELSE 0
    IN
    [ sender |-> Fulfilled(Val(accountAddress)),
      nonce |-> nonce,
      initCode |-> IF nonce = 0 THEN CreateInitCode(0) ELSE EmptyHex,
      callData |-> EncodeExecute(info.to,
                                 ToHexString(IF IsSome(info.value) THEN Val(info.value) ELSE 0),
                                 info.data),
      callGasLimit |-> ToHexString(IF gasLimit # 0 THEN gasLimit ELSE AnswerTo(p, 2)),
      verificationGasLimit |->
          GetVerificationGasLimit + (IF nonce = 0 THEN AnswerTo(p, 5) ELSE 0),
      maxFeePerGas |-> AnswerTo(p, 7).maxFeePerGas,
      maxPriorityFeePerGas |-> AnswerTo(p, 7).maxPriorityFeePerGas,
      paymasterAndData |-> EmptyHex,
      preVerificationGas |-> Pending,
      signature |-> EmptyHex ]

\* C21: the second argument of createUnsignedUserOp has no influence on the
\* result. The returned record is the one determined by the details, the
\* instance and the answers to the build's queries, whatever was passed as
\* the second argument; so two builds that differ only in that argument
\* and receive the same answers return the same record, and the record's
\* nonce is the details' nonce or the ledger's.
C21_NonceArgumentIgnored ==
    \A p \in Callers :
        Built(p) =>
            /\ Rec(p).nonce = ExpectedNonce(p)
            /\ [Rec(p) EXCEPT !.preVerificationGas = Pending] = ExpectedUserOp(p)

\* A build called with 7 as its second argument and no nonce in the
\* details has returned the nonce 1 it read from the deployed account.
C21_Witness ==
    \E p \in Callers :
        /\ Built(p)
        /\ callers[p].nonceArg = Some(7)
        /\ Info(p).nonce = None
        /\ CodeQueried(p, TRUE, 1)
        /\ Rec(p).nonce = 1

\* The call of p is a createUnsignedUserOp with an empty list.
IsEmptyBuild(c) == c.op = "createUnsignedUserOp" /\ c.infos = << >>

\* C22: createUnsignedUserOp called with an empty list fails and returns no
\* record, without any external query, and the step that makes the call
\* changes neither the address cache nor the contract handle.
C22_EmptyListFails ==
    /\ [](\A p \in Callers :
            IsEmptyBuild(callers[p]) =>
                /\ BuildFailed(p)
                /\ callers[p].result.value = None
                /\ callers[p].result.error = Some(UndefinedInfoError)
                /\ callers[p].queries = << >>)
    /\ [][\A p \in Callers :
            (IsEmptyBuild(callers'[p]) /\ callers'[p] # callers[p])
            => (accountAddress' = accountAddress
                /\ smartAccountContract' = smartAccountContract)]_vars

\* The first call on an instance, with an empty list, has failed; nothing
\* was sent and nothing is cached.
C22_Witness ==
    \E p \in Callers :
        /\ IsEmptyBuild(callers[p])
        /\ BuildFailed(p)
        /\ calls = 1
        /\ callers[p].queries = << >>
        /\ accountAddress = None
        /\ smartAccountContract = None

\* The call of p is a createUnsignedUserOp that has started and not ended.
BuildRunning(p) == callers[p].op = "createUnsignedUserOp" /\ callers[p].pc # "done"

\* C23: if every query that is sent gets a response, every started
\* createUnsignedUserOp call ends, with a record or with a failure, also
\* while another build runs on the same instance.
C23_BuildTerminates ==
    \A p \in Callers : BuildRunning(p) ~> (Built(p) \/ BuildFailed(p))

\* A build has returned its record while a build started before it on the
\* same instance is still waiting for a response.
C23_Witness ==
    \E p, o \in Callers :
        /\ Built(p)
        /\ BuildRunning(o)
        /\ callers[o].id < callers[p].id
        /\ ~IsSettled(LastQuery(callers[o]))

\* C24: whenever the contract handle is set, the address cache is set and
\* the handle is bound to the cached address; and once the handle is set,
\* every later assignment, by whichever caller, binds it to the same
\* address.
C24_HandleBoundToAddress ==
    /\ [](IsSome(smartAccountContract) =>
            /\ IsSome(accountAddress)
            /\ Val(smartAccountContract).address = Val(accountAddress))
    /\ [][IsSome(smartAccountContract) =>
            /\ IsSome(smartAccountContract')
            /\ Val(smartAccountContract').address = Val(smartAccountContract).address]_vars

\* Two builds that both missed the caches have each resolved the address
\* and constructed a handle; the handle is bound to the cached address.
C24_Witness ==
    /\ IsSome(smartAccountContract)
    /\ Val(smartAccountContract).address = Val(accountAddress)
    /\ addressWrites = 2
    /\ \A p \in Callers :
           /\ callers[p].op = "createUnsignedUserOp"
           /\ callers[p].loc.callData # << >>
           /\ \E i \in QueryIds(p) : IsViewCall(QueryOf(p, i)) /\ IsAnswered(QueryOf(p, i))

====
